---- MODULE Spec2Model ----
(***************************************************************************)
(* Model of the Synthesis engine of SoundOfLife (Source/Synthesis.cpp):    *)
(* the column partition of the grid among the oscillators, the gain and    *)
(* pan helpers, prepareToPlay and the per-sample loop of processBlock.     *)
(*                                                                         *)
(* Floating-point values are modelled as exact rationals <<n, d>>; a       *)
(* denominator of 0 stands for the IEEE results of a division by zero      *)
(* (<<0, 0>> is NaN, <<1, 0>> and <<-1, 0>> are the infinities).           *)
(* A cell's fade k stands for the value k / FadeScale.                     *)
(***************************************************************************)
EXTENDS Integers, Sequences, FiniteSets, TLC

\* ------------------------------------------------------------------ bounds
MaxRows == 2
MaxColumns == 4
MaxCells == 5
MaxOscillators == 2
MaxLFOs == 2
FadeScale == 1
MaxBlockSize == 2
MaxBlocks == 2
\* Steps per cycle of a modulation oscillator at its configured frequency.
LFOPeriod == 3

\* ------------------------------------------- configuration (Variables.h)
\* Base frequency of the oscillator bank, Variables::startFrequency.
startFrequency == 110
\* Variables::inharmonicity, as a rational.
inharmonicity == <<3, 2>>
SampleRates == {48000}
numChannels == 2

VARIABLES
    numRows, numColumns, numOscillators, numLFOs,  \* Variables::*
    fade, alive,                                   \* the Grid's cells
    call,                                          \* last helper call made
    m_BlockSize, m_SampleRate, prepared,           \* Synthesis members
    m_Oscillators, m_LFOs,                         \* the two oscillator banks
    pc, blockSize, oscillatorIndex, i,             \* processBlock's position
    modulator, currentFrequency, gain,             \* processBlock's locals
    panValues, panAllocated, block, buffer,
    allocations, advances, fadeCalls, pannerCalls, \* history of this block
    staleDraws, blocksRun

cfgVars == <<numRows, numColumns, numOscillators, numLFOs>>
gridVars == <<fade, alive>>
memberVars == <<m_BlockSize, m_SampleRate, prepared>>
bankVars == <<m_Oscillators, m_LFOs>>
localVars == <<blockSize, oscillatorIndex, i, modulator, currentFrequency, gain,
               panValues, panAllocated, block, buffer>>
historyVars == <<allocations, advances, fadeCalls, pannerCalls, staleDraws, blocksRun>>
vars == <<cfgVars, gridVars, call, memberVars, bankVars, pc, localVars, historyVars>>

\* ------------------------------------------------------- float arithmetic
Abs(x) == IF x < 0 THEN -x ELSE x
Sign(x) == IF x < 0 THEN -1 ELSE IF x > 0 THEN 1 ELSE 0

RECURSIVE GCD(_, _)
GCD(a, b) == IF b = 0 THEN a ELSE GCD(b, a % b)

\* The float with value n / d; d = 0 gives NaN or an infinity.
Rat(n, d) ==
    IF d = 0 THEN <<Sign(n), 0>>
    ELSE LET g == GCD(Abs(n), Abs(d))
             s == Sign(d)
         IN <<s * (n \div g), s * (d \div g)>>

IsNaN(a) == a = <<0, 0>>
IsFinite(a) == a[2] # 0
RMul(a, b) == Rat(a[1] * b[1], a[2] * b[2])
RAdd(a, b) ==
    IF IsFinite(a) /\ IsFinite(b) THEN Rat(a[1] * b[2] + b[1] * a[2], a[2] * b[2])
    ELSE IF IsFinite(a) THEN b
    ELSE IF IsFinite(b) \/ a = b THEN a
    ELSE <<0, 0>>
RDiv(a, b) ==
    IF IsNaN(a) \/ IsNaN(b) THEN <<0, 0>>
    ELSE IF ~IsFinite(a) /\ ~IsFinite(b) THEN <<0, 0>>
    ELSE IF ~IsFinite(b) THEN <<0, 1>>
    ELSE IF ~IsFinite(a) THEN <<a[1] * (IF b[1] < 0 THEN -1 ELSE 1), 0>>
    ELSE Rat(a[1] * b[2], a[2] * b[1])
\* a < b and a <= b as the float comparisons: false when either side is NaN.
RLt(a, b) ==
    /\ ~IsNaN(a) /\ ~IsNaN(b)
    /\ IF IsFinite(a) /\ IsFinite(b) THEN a[1] * b[2] < b[1] * a[2]
       ELSE IF IsFinite(a) THEN b[1] > 0
       ELSE IF IsFinite(b) THEN a[1] < 0
       ELSE a[1] < b[1]
RLe(a, b) == ~IsNaN(a) /\ ~IsNaN(b) /\ (a = b \/ RLt(a, b))

\* ------------------------------------------------------------------- grid
Rows == 0 .. (numRows - 1)
Columns == 0 .. (numColumns - 1)
Cells == Rows \X Columns
Oscillators == 0 .. (numOscillators - 1)
LFOs == 0 .. (numLFOs - 1)

\* Cell::getFade
getFade(row, column) == fade[<<row, column>>]

\* Cell::updateFade: back to the maximum while alive, one step down towards
\* zero once dead.
updateFade(f, isAlive) ==
    IF isAlive THEN FadeScale ELSE IF f > 0 THEN f - 1 ELSE 0

\* ------------------------------------------------------ column partition
\* Variables::numColumns / Variables::numOscillators, an integer division.
columnsPerOscillator == numColumns \div numOscillators

\* A startColumn that begins one column too far.
startColumnShifted(index) == index * columnsPerOscillator + 1
\* float startColumn = oscillatorIndex * (numColumns / numOscillators)
startColumn(index) == index * columnsPerOscillator

\* float endColumn = startColumn + (numColumns / numOscillators)
endColumn(index) == startColumn(index) + columnsPerOscillator

\* for (int column = startColumn; column < endColumn; ++column): the columns
\* the loop visits.
RECURSIVE columnLoop(_, _)
columnLoop(column, end) ==
    IF column < end THEN {column} \cup columnLoop(column + 1, end) ELSE {}

oscillatorColumns(index) == columnLoop(startColumn(index), endColumn(index))

RECURSIVE SumOver(_, _)
SumOver(S, f) ==
    IF S = {} THEN 0
    ELSE LET x == CHOOSE y \in S : TRUE IN f[x] + SumOver(S \ {x}, f)

\* ---------------------------------------------------------------- helpers
\* A getOscillatorGain that normalises by the whole grid's cell count.
getOscillatorGainUnscaled(index) ==
    LET block_ == oscillatorColumns(index)
        sum == SumOver(Rows \X block_, [cell \in Rows \X block_ |-> getFade(cell[1], cell[2])])
    IN RDiv(Rat(sum, FadeScale), Rat(numRows * numColumns, 1))
\* Synthesis::getOscillatorGain: the block's fades summed, then divided by
\* (float) numRows * (float) numColumns / (float) numOscillators.
getOscillatorGain(index) ==
    LET block_ == oscillatorColumns(index)
        sum == SumOver(Rows \X block_, [cell \in Rows \X block_ |-> getFade(cell[1], cell[2])])
    IN RDiv(Rat(sum, FadeScale), Rat(numRows * numColumns, numOscillators))

\* if (pan > 1.0) pan = 1.0; else if (pan < -1.0) pan = -1.0;
clamp(pan) ==
    IF RLt(<<1, 1>>, pan) THEN <<1, 1>>
    ELSE IF RLt(pan, <<-1, 1>>) THEN <<-1, 1>>
    ELSE pan

\* The signed sum of getOscillatorPan's loop: rows above numRows / 2 add
\* their fade, the others subtract it.
panSum(index) ==
    LET block_ == oscillatorColumns(index)
    IN SumOver(Rows \X block_,
               [cell \in Rows \X block_ |->
                   IF cell[1] < numRows \div 2 THEN getFade(cell[1], cell[2])
                   ELSE 0 - getFade(cell[1], cell[2])])

\* Synthesis::getOscillatorPan: the signed sum divided by
\* numRows * (endColumn - startColumn) / 2.0, then clamped.
getOscillatorPan(index) ==
    clamp(RDiv(Rat(panSum(index), FadeScale),
               Rat(numRows * (endColumn(index) - startColumn(index)), 2)))

\* Synthesis::getSpectralGainDecay
getSpectralGainDecay(g, frequency) ==
    RMul(RMul(g, <<startFrequency, 1>>), RDiv(<<1, 1>>, frequency))

\* An updateFadeValues loop that runs over every column of the grid.
updateFadeColumnsWholeGrid(index) == Columns
\* The columns updateFadeValues' loop visits (its own startColumn and
\* endColumn, computed as in the two getters).
updateFadeColumns(index) == columnLoop(startColumn(index), endColumn(index))

\* Synthesis::updateFadeValues: the fades of the grid after the call.
updateFadeValues(index) ==
    [cell \in Cells |->
        IF cell[2] \in updateFadeColumns(index)
        THEN updateFade(fade[cell], alive[cell]) ELSE fade[cell]]

\* ---------------------------------------------------------- initial state
\* The configurations of Variables.h the model covers.
ConfigInit ==
    /\ numRows \in 1 .. MaxRows
    /\ numColumns \in 1 .. MaxColumns
    /\ numRows * numColumns <= MaxCells
    /\ numOscillators \in 1 .. MaxOscillators
    /\ numLFOs \in 1 .. (IF numOscillators < MaxLFOs THEN numOscillators ELSE MaxLFOs)

\* Live-cell patterns of the automaton the model covers.
AlivePatterns ==
    { [cell \in Cells |-> FALSE],
      [cell \in Cells |-> TRUE],
      [cell \in Cells |-> cell[1] = 0],
      [cell \in Cells |-> (cell[1] + cell[2]) % 2 = 0] }

\* A cleared audio block: for each oscillator, the number of samples it has
\* added to the block and the panner passes those samples went through.
EmptyBlock == [o \in Oscillators |-> [samples |-> 0, pannedBy |-> <<>>]]

NoCall == [op |-> "none", index |-> 0, columns |-> {}, result |-> <<0, 1>>]

\* Synthesis::Synthesis: the banks are filled with default oscillators.
EngineInit ==
    /\ call = NoCall
    /\ m_BlockSize = 0
    /\ m_SampleRate = 0
    /\ prepared = FALSE
    /\ m_Oscillators = [o \in Oscillators |->
                           [frequency |-> <<0, 1>>, phaseDeltaFor |-> <<0, 1>>, stale |-> FALSE]]
    /\ m_LFOs = [l \in LFOs |-> [phase |-> 0]]
    /\ pc = "idle"
    /\ blockSize = 0
    /\ oscillatorIndex = 0
    /\ i = 0
    /\ modulator = 0
    /\ currentFrequency = <<0, 1>>
    /\ gain = <<0, 1>>
    /\ panValues = <<>>
    /\ panAllocated = 0
    /\ block = EmptyBlock
    /\ buffer = EmptyBlock
    /\ allocations = [setup |-> 0, loop |-> 0]
    /\ advances = [cell \in Cells |-> <<>>]
    /\ fadeCalls = [o \in Oscillators |-> 0]
    /\ pannerCalls = <<>>
    /\ staleDraws = 0
    /\ blocksRun = 0

\* ------------------------------------------- the helpers on arbitrary grids
InitHelpers ==
    /\ ConfigInit
    /\ numLFOs = 1
    /\ fade \in [Cells -> 0 .. FadeScale]
    /\ alive \in AlivePatterns
    /\ EngineInit

CallGain(index) ==
    /\ call' = [op |-> "gain", index |-> index, columns |-> oscillatorColumns(index),
                result |-> getOscillatorGain(index)]
    /\ UNCHANGED <<cfgVars, gridVars, memberVars, bankVars, pc, localVars, historyVars>>

CallPan(index) ==
    /\ call' = [op |-> "pan", index |-> index, columns |-> oscillatorColumns(index),
                result |-> getOscillatorPan(index)]
    /\ UNCHANGED <<cfgVars, gridVars, memberVars, bankVars, pc, localVars, historyVars>>

CallUpdateFade(index) ==
    /\ call' = [op |-> "fade", index |-> index, columns |-> updateFadeColumns(index),
                result |-> <<0, 1>>]
    /\ fade' = updateFadeValues(index)
    /\ UNCHANGED <<cfgVars, alive, memberVars, bankVars, pc, localVars, historyVars>>

NextHelpers ==
    \/ \E index \in Oscillators : CallGain(index)
    \/ \E index \in Oscillators : CallPan(index)
    \/ \E index \in Oscillators : CallUpdateFade(index)

SpecHelpers == InitHelpers /\ [][NextHelpers]_vars

Divides == numColumns % numOscillators = 0

\* ------------------------------------------------------------ oscillators
\* Oscillator::setFrequency: stores the frequency; the phase delta is left
\* as it was.
setFrequency(osc, frequency) == [osc EXCEPT !.frequency = frequency, !.stale = TRUE]

\* Oscillator::updatePhaseDelta: the phase delta follows the frequency.
updatePhaseDelta(osc) == [osc EXCEPT !.phaseDeltaFor = osc.frequency, !.stale = FALSE]

\* The waveform of a modulation oscillator at a phase, to the nearest of
\* -1, 0 and 1.
wave(phase) ==
    IF phase = 0 \/ 2 * phase = LFOPeriod THEN 0
    ELSE IF 2 * phase < LFOPeriod THEN 1 ELSE -1

\* The frequency prepareToPlay gives oscillator o: each one is the previous
\* one plus previous / (index + 1) * inharmonicity.
RECURSIVE seriesFrequency(_)
seriesFrequency(o) ==
    IF o = 0 THEN <<startFrequency, 1>>
    ELSE LET previous == seriesFrequency(o - 1)
         IN RAdd(previous, RMul(RDiv(previous, <<o, 1>>), inharmonicity))

\* ----------------------------------------------------------- prepareToPlay
\* Synthesis::prepareToPlay
prepareToPlay(sampleRate, size) ==
    /\ pc = "idle"
    /\ m_Oscillators' = [o \in Oscillators |->
                            [frequency |-> seriesFrequency(o),
                             phaseDeltaFor |-> seriesFrequency(o),
                             stale |-> FALSE]]
    /\ m_LFOs' = [l \in LFOs |-> [phase |-> 0]]
    /\ m_BlockSize' = size
    /\ m_SampleRate' = sampleRate
    /\ prepared' = TRUE
    /\ UNCHANGED <<cfgVars, gridVars, call, pc, localVars, historyVars>>

\* ------------------------------------------------------------ processBlock
\* Lines 196-209: the scratch block and the pan values are created and sized,
\* the two buffers cleared.
processBlockBegin(samples) ==
    /\ pc = "idle"
    /\ prepared
    /\ blocksRun < MaxBlocks
    /\ blockSize' = samples
    /\ block' = EmptyBlock
    /\ buffer' = EmptyBlock
    /\ panValues' = <<>>
    /\ panAllocated' = m_BlockSize
    /\ allocations' = [setup |-> (IF numChannels * samples > 0 THEN 1 ELSE 0)
                                 + (IF m_BlockSize > 0 THEN 1 ELSE 0),
                       loop |-> 0]
    /\ advances' = [cell \in Cells |-> <<>>]
    /\ fadeCalls' = [o \in Oscillators |-> 0]
    /\ pannerCalls' = <<>>
    /\ oscillatorIndex' = 0
    /\ i' = 0
    /\ pc' = "oscillator"
    /\ UNCHANGED <<cfgVars, gridVars, call, memberVars, bankVars, modulator,
                   currentFrequency, gain, staleDraws, blocksRun>>

\* Line 211-213: the loop over the oscillators.
oscillatorLoop ==
    /\ pc = "oscillator"
    /\ IF oscillatorIndex < numOscillators
       THEN /\ panValues' = <<>>
            /\ i' = 0
            /\ pc' = "sample"
       ELSE /\ pc' = "mix"
            /\ UNCHANGED <<panValues, i>>
    /\ UNCHANGED <<cfgVars, gridVars, call, memberVars, bankVars, blockSize,
                   oscillatorIndex, modulator, currentFrequency, gain, panAllocated,
                   block, buffer, historyVars>>

\* Line 215: the loop over the samples of the block.
sampleLoop ==
    /\ pc = "sample"
    /\ pc' = IF i < blockSize THEN "lfo" ELSE "panner"
    /\ UNCHANGED <<cfgVars, gridVars, call, memberVars, bankVars, localVars, historyVars>>

\* Line 217: one sample of the oscillator's LFO.
drawModulator ==
    /\ pc = "lfo"
    /\ LET l == oscillatorIndex % numLFOs
           phase == (m_LFOs[l].phase + 1) % LFOPeriod
       IN /\ m_LFOs' = [m_LFOs EXCEPT ![l].phase = phase]
          /\ modulator' = wave(phase)
    /\ pc' = "modulate"
    /\ UNCHANGED <<cfgVars, gridVars, call, memberVars, m_Oscillators, blockSize,
                   oscillatorIndex, i, currentFrequency, gain, panValues, panAllocated,
                   block, buffer, historyVars>>

\* currentFrequency + ((currentFrequency / ((oscillatorIndex + 1) * 5)) * modulator)
modulatedFrequency(frequency, index, m) ==
    RAdd(frequency, RMul(RDiv(frequency, <<(index + 1) * 5, 1>>), <<m, 1>>))

\* Lines 220-223: the modulated frequency is set on the oscillator.
modulate ==
    /\ pc = "modulate"
    /\ LET osc == m_Oscillators[oscillatorIndex]
       IN /\ currentFrequency' = osc.frequency
          /\ m_Oscillators' =
                [m_Oscillators EXCEPT ![oscillatorIndex] =
                    setFrequency(osc, modulatedFrequency(osc.frequency, oscillatorIndex, modulator))]
    /\ pc' = "phaseDelta"
    /\ UNCHANGED <<cfgVars, gridVars, call, memberVars, m_LFOs, blockSize, oscillatorIndex,
                   i, modulator, gain, panValues, panAllocated, block, buffer, historyVars>>

\* A processBlock that leaves out the updatePhaseDelta call.
skipPhaseDelta ==
    /\ pc = "phaseDelta"
    /\ pc' = "draw"
    /\ UNCHANGED <<cfgVars, gridVars, call, memberVars, bankVars, localVars, historyVars>>
\* Line 224
applyPhaseDelta ==
    /\ pc = "phaseDelta"
    /\ m_Oscillators' =
          [m_Oscillators EXCEPT ![oscillatorIndex] = updatePhaseDelta(m_Oscillators[oscillatorIndex])]
    /\ pc' = "draw"
    /\ UNCHANGED <<cfgVars, gridVars, call, memberVars, m_LFOs, localVars, historyVars>>

\* Line 227: the oscillator's sample is drawn with the phase delta it holds.
drawSample ==
    /\ pc = "draw"
    /\ staleDraws' = IF m_Oscillators[oscillatorIndex].stale THEN 1 ELSE staleDraws
    /\ pc' = "gain"
    /\ UNCHANGED <<cfgVars, gridVars, call, memberVars, bankVars, localVars,
                   allocations, advances, fadeCalls, pannerCalls, blocksRun>>

\* gain = getOscillatorGain (i); gain *= getSpectralGainDecay (gain, frequency);
appliedGain(index, frequency) ==
    LET g == getOscillatorGain(index)
    IN RMul(g, getSpectralGainDecay(g, frequency))

\* Lines 230-231
computeGain ==
    /\ pc = "gain"
    /\ gain' = appliedGain(oscillatorIndex, m_Oscillators[oscillatorIndex].frequency)
    /\ pc' = "pan"
    /\ UNCHANGED <<cfgVars, gridVars, call, memberVars, bankVars, blockSize, oscillatorIndex,
                   i, modulator, currentFrequency, panValues, panAllocated, block, buffer,
                   historyVars>>

\* Line 234: panValues.add; the array grows when it is full.
addPan ==
    /\ pc = "pan"
    /\ panValues' = Append(panValues, getOscillatorPan(oscillatorIndex))
    /\ IF Len(panValues) >= panAllocated
       THEN /\ panAllocated' = Len(panValues) + 1
            /\ allocations' = [allocations EXCEPT !.loop = 1]
       ELSE UNCHANGED <<panAllocated, allocations>>
    /\ pc' = "fade"
    /\ UNCHANGED <<cfgVars, gridVars, call, memberVars, bankVars, blockSize, oscillatorIndex,
                   i, modulator, currentFrequency, gain, block, buffer, advances, fadeCalls,
                   pannerCalls, staleDraws, blocksRun>>

\* Line 237
advanceFades ==
    /\ pc = "fade"
    /\ fade' = updateFadeValues(oscillatorIndex)
    /\ advances' = [cell \in Cells |->
                       IF cell[2] \in updateFadeColumns(oscillatorIndex)
                       THEN Append(advances[cell], oscillatorIndex) ELSE advances[cell]]
    /\ fadeCalls' = [fadeCalls EXCEPT ![oscillatorIndex] = @ + 1]
    /\ pc' = "accumulate"
    /\ UNCHANGED <<cfgVars, alive, call, memberVars, bankVars, localVars, allocations,
                   pannerCalls, staleDraws, blocksRun>>

\* Lines 240-247: the sample is added to every channel of the scratch block.
accumulate ==
    /\ pc = "accumulate"
    /\ block' = [block EXCEPT ![oscillatorIndex].samples = @ + 1]
    /\ pc' = "restore"
    /\ UNCHANGED <<cfgVars, gridVars, call, memberVars, bankVars, blockSize, oscillatorIndex,
                   i, modulator, currentFrequency, gain, panValues, panAllocated, buffer,
                   historyVars>>

\* A processBlock that leaves out the restoring setFrequency call.
keepModulated ==
    /\ pc = "restore"
    /\ i' = i + 1
    /\ pc' = "sample"
    /\ UNCHANGED <<cfgVars, gridVars, call, memberVars, bankVars, blockSize, oscillatorIndex,
                   modulator, currentFrequency, gain, panValues, panAllocated, block, buffer,
                   historyVars>>
\* Line 250 and the loop's ++i
restoreFrequency ==
    /\ pc = "restore"
    /\ m_Oscillators' =
          [m_Oscillators EXCEPT ![oscillatorIndex] =
              setFrequency(m_Oscillators[oscillatorIndex], currentFrequency)]
    /\ i' = i + 1
    /\ pc' = "sample"
    /\ UNCHANGED <<cfgVars, gridVars, call, memberVars, m_LFOs, blockSize, oscillatorIndex,
                   modulator, currentFrequency, gain, panValues, panAllocated, block, buffer,
                   historyVars>>

\* Panner::processBlock: every sample in the block is redistributed between
\* the channels by the pan values it is given.
pannerProcessBlock(b, index) ==
    [o \in Oscillators |->
        IF b[o].samples > 0 THEN [b[o] EXCEPT !.pannedBy = Append(@, index)] ELSE b[o]]

\* Line 254 and the loop's ++oscillatorIndex
applyPan ==
    /\ pc = "panner"
    /\ block' = pannerProcessBlock(block, oscillatorIndex)
    /\ pannerCalls' = Append(pannerCalls, [oscillator |-> oscillatorIndex, pans |-> Len(panValues)])
    /\ oscillatorIndex' = oscillatorIndex + 1
    /\ pc' = "oscillator"
    /\ UNCHANGED <<cfgVars, gridVars, call, memberVars, bankVars, blockSize, i, modulator,
                   currentFrequency, gain, panValues, panAllocated, buffer, allocations,
                   advances, fadeCalls, staleDraws, blocksRun>>

\* Lines 258-283: the scratch block is added to the cleared output buffer;
\* the filter, the distortion and the reverb then work on the buffer's
\* sample values in place.
mixAndFinish ==
    /\ pc = "mix"
    /\ buffer' = block
    /\ blocksRun' = blocksRun + 1
    /\ pc' = "idle"
    /\ UNCHANGED <<cfgVars, gridVars, call, memberVars, bankVars, blockSize, oscillatorIndex,
                   i, modulator, currentFrequency, gain, panValues, panAllocated, block,
                   allocations, advances, fadeCalls, pannerCalls, staleDraws>>

\* The grid after construction: every cell at full fade, the automaton in
\* one of the live-cell patterns.
Init ==
    /\ ConfigInit
    /\ fade = [cell \in Cells |-> FadeScale]
    /\ alive \in AlivePatterns
    /\ EngineInit

Next ==
    \/ \E sampleRate \in SampleRates, size \in 1 .. MaxBlockSize : prepareToPlay(sampleRate, size)
    \/ \E samples \in 1 .. MaxBlockSize : processBlockBegin(samples)
    \/ oscillatorLoop
    \/ sampleLoop
    \/ drawModulator
    \/ modulate
    \/ applyPhaseDelta
    \/ drawSample
    \/ computeGain
    \/ addPan
    \/ advanceFades
    \/ accumulate
    \/ restoreFrequency
    \/ applyPan
    \/ mixAndFinish

Spec == Init /\ [][Next]_vars

\* ================================================================= claims
Zero == <<0, 1>>
One == <<1, 1>>
MinusOne == <<-1, 1>>

\* The columns [index * w, (index + 1) * w) for w = numColumns / numOscillators.
expectedColumns(index) ==
    (index * (numColumns \div numOscillators))
        .. ((index + 1) * (numColumns \div numOscillators) - 1)

\* C1: when numOscillators divides numColumns, the columns the gain, pan and
\* fade loops visit for oscillator index are exactly
\* [index * w, (index + 1) * w); over all oscillators these ranges are
\* pairwise disjoint, cover exactly the grid's columns, and every visited
\* column is a column of the grid.
ColumnPartition ==
    Divides =>
        /\ \A a \in Oscillators :
              /\ oscillatorColumns(a) = expectedColumns(a)
              /\ updateFadeColumns(a) = expectedColumns(a)
        /\ \A a, b \in Oscillators :
              a # b => oscillatorColumns(a) \cap oscillatorColumns(b) = {}
        /\ UNION { oscillatorColumns(a) : a \in Oscillators } = Columns
        /\ call.op # "none" =>
              /\ call.columns = expectedColumns(call.index)
              /\ call.columns \subseteq Columns

ColumnPartitionWitness ==
    /\ Divides
    /\ numOscillators = 2
    /\ numColumns = 4
    /\ call.op = "fade"
    /\ call.index = 1
    /\ call.columns = {2, 3}

blockCells(index) == Rows \X oscillatorColumns(index)
blockFadeSum(index) == SumOver(blockCells(index), [cell \in blockCells(index) |-> fade[cell]])

topSum(index) ==
    LET top == { cell \in blockCells(index) : cell[1] < numRows \div 2 }
    IN SumOver(top, [cell \in top |-> fade[cell]])
bottomSum(index) ==
    LET bottom == { cell \in blockCells(index) : cell[1] >= numRows \div 2 }
    IN SumOver(bottom, [cell \in bottom |-> fade[cell]])

\* C3: in every configuration and grid state getOscillatorPan returns a
\* value in [-1, 1], and 0 whenever the fades of the top half of the block's
\* rows and those of the bottom half have the same sum.
PanInRange ==
    call.op = "pan" =>
        /\ RLe(MinusOne, call.result) /\ RLe(call.result, One)
        /\ topSum(call.index) = bottomSum(call.index) => call.result = Zero

\* C3 in the configurations where every oscillator has at least one column.
PanInRangeNonEmptyBlocks ==
    (call.op = "pan" /\ numOscillators <= numColumns) =>
        /\ RLe(MinusOne, call.result) /\ RLe(call.result, One)
        /\ topSum(call.index) = bottomSum(call.index) => call.result = Zero

\* C4: no sample is drawn from an audio oscillator whose frequency was set
\* after its phase delta was last computed: every setFrequency is followed
\* by updatePhaseDelta before the oscillator's next processSample.
PhaseDeltaFresh ==
    /\ staleDraws = 0
    /\ pc = "draw" =>
          /\ ~m_Oscillators[oscillatorIndex].stale
          /\ m_Oscillators[oscillatorIndex].phaseDeltaFor
                = m_Oscillators[oscillatorIndex].frequency

PhaseDeltaFreshWitness ==
    /\ pc = "gain"
    /\ blocksRun >= 1
    /\ i >= 1
    /\ modulator # 0
    /\ m_Oscillators[oscillatorIndex].frequency # currentFrequency

\* C5: after every sample iteration of processBlock, and so between and
\* after processBlock calls, every audio oscillator holds the frequency
\* prepareToPlay gave it.
FrequencyRestored ==
    (prepared /\ pc \in {"idle", "oscillator", "sample", "lfo", "modulate", "panner", "mix"}) =>
        \A o \in Oscillators : m_Oscillators[o].frequency = seriesFrequency(o)

FrequencyRestoredWitness ==
    /\ pc = "sample"
    /\ i >= 1
    /\ modulator # 0
    /\ blocksRun >= 1
    /\ oscillatorIndex >= 1
    /\ m_Oscillators[oscillatorIndex].frequency = seriesFrequency(oscillatorIndex)
    /\ m_Oscillators[oscillatorIndex].phaseDeltaFor # seriesFrequency(oscillatorIndex)

finished == pc = "idle" /\ blocksRun > 0

EveryCellAdvanced ==
    finished => \A cell \in Cells : Len(advances[cell]) = blockSize

\* C7: a processBlock call on a buffer of m_BlockSize samples allocates and
\* resizes nothing, neither before nor inside the per-sample loop (stated
\* for the configurations of the column partition).
NoAllocationInProcessBlock ==
    (pc # "idle" /\ blockSize = m_BlockSize /\ Divides) =>
        allocations.setup = 0 /\ allocations.loop = 0

\* C8: no gain, pan or fade computation of processBlock runs in a
\* configuration where numOscillators does not divide numColumns, and no pan
\* value comes from a division by zero.
ConfigurationValidated ==
    /\ pc \in {"gain", "pan", "fade"} => (Divides /\ columnsPerOscillator > 0)
    /\ \A k \in 1 .. Len(panValues) : IsFinite(panValues[k])

\* C9: the gain applied to the sample is the density gain with the spectral
\* decay applied once, getOscillatorGain(i) * startFrequency / f, and lies in
\* [0, 1] whenever f >= startFrequency (stated for the configurations of the
\* column partition).
SpectralDecayAppliedOnce ==
    (pc = "pan" /\ Divides) =>
        LET f == m_Oscillators[oscillatorIndex].frequency
        IN /\ gain = RDiv(RMul(getOscillatorGain(oscillatorIndex), <<startFrequency, 1>>), f)
           /\ RLe(<<startFrequency, 1>>, f) => (RLe(Zero, gain) /\ RLe(gain, One))

\* C10: the panner runs once per oscillator with exactly blockSize pan
\* values, and the samples an oscillator added to the scratch block have been
\* panned exactly once, with that oscillator's pan values, when the block is
\* added to the output buffer (stated for the configurations of the column
\* partition).
PannedOnceWithOwnValues ==
    /\ \A k \in 1 .. Len(pannerCalls) :
          pannerCalls[k].oscillator = k - 1 /\ pannerCalls[k].pans = blockSize
    /\ (finished /\ Divides) =>
          /\ Len(pannerCalls) = numOscillators
          /\ \A o \in Oscillators : buffer[o].pannedBy = <<o>>

====
